---------------------------- MODULE Spec2Model ----------------------------
(***************************************************************************)
(* Uber Rides Analytics Dashboard 2024.                                    *)
(*                                                                         *)
(* src/src/preprocess.py  add_derived_features                             *)
(* src/src/metrics.py     calculate_ride_metrics, prepare_volume_data,     *)
(*                        vehicle_type_metrics_dataframe                   *)
(* src/app.py             the Streamlit script: load_data, the sidebar     *)
(*                        filters, filtered_df, the export and the calls   *)
(*                        of the metrics functions                         *)
(*                                                                         *)
(* Data representation.  A DataFrame is a sequence of rows, each row a     *)
(* record.  A nullable cell is <<>> (NaN / NaT / None) or <<v>>.  A date   *)
(* text "YYYY-MM-DD" is <<y, m, d>>, a time text "HH:MM:SS" is             *)
(* <<h, mi, s>>, a Timestamp is <<y, m, d, h, mi, s>> and NaT is <<>>.     *)
(* A float is an exact fraction [num, den] in lowest terms; NaN is         *)
(* [num |-> 0, den |-> 0].                                                 *)
(***************************************************************************)
EXTENDS Integers, Sequences, FiniteSets, TLC

VARIABLES
    file,               \* data/ncr_ride_bookings.csv: the rows of the CSV
    columns,            \* the column names in the header of the CSV
    loads,              \* times the body of load_data has run (its result
                        \* is kept by st.cache_data from then on)
    raw,                \* the DataFrame handed to add_derived_features,
                        \* as it is after the call returned
    df,                 \* the augmented base table load_data returns
    vehicle_checked,    \* ticked "vehicle_<v>" checkboxes
    status_checked,     \* ticked "status_<s>" checkboxes
    payment_checked,    \* ticked "payment_<p>" checkboxes
    date_range,         \* value of the "date_range" widget (1 or 2 dates)
    hours,              \* value of the "hours" slider <<lo, hi>>
    volume_granularity, \* value of the "volume_granularity" selectbox
    filtered_df,        \* the record set handed to export and metrics
    warning,            \* st.warning("No data matches ...") was shown
    csv,                \* payload of the download button
    metrics,            \* calculate_ride_metrics(filtered_df)
    volume,             \* prepare_volume_data(filtered_df, granularity)
    vh_metrics_df,      \* vehicle_type_metrics_dataframe(filtered_df)
    error,              \* "" or the exception that ended the script run
    call,               \* library harness: the function called last
    ret                 \* library harness: what it returned

vars == <<file, columns, loads, raw, df, vehicle_checked, status_checked,
          payment_checked, date_range, hours, volume_granularity,
          filtered_df, warning, csv, metrics, volume, vh_metrics_df,
          error, call, ret>>

appVars == <<loads, vehicle_checked, status_checked, payment_checked,
             date_range, hours, volume_granularity, warning, csv, metrics,
             volume, vh_metrics_df, error>>

-----------------------------------------------------------------------------
(* Bounds of the model.                                                    *)

\* Longest CSV the library harness feeds to add_derived_features.
MaxRows == 3

\* Longest CSV the dashboard is started on.
MaxFileRows == 2

-----------------------------------------------------------------------------
(* Nullable cells and floats.                                              *)

Null == <<>>
Some(v) == <<v>>
IsNull(c) == c = <<>>
NotNull(c) == c # <<>>
Val(c) == c[1]

RECURSIVE GCD(_, _)
GCD(a, b) == IF b = 0 THEN a ELSE GCD(b, a % b)

Abs(n) == IF n < 0 THEN -n ELSE n

\* The float n/d (d > 0), in lowest terms.
Frac(n, d) ==
    LET g == GCD(Abs(n), d)
    IN  [num |-> n \div g, den |-> d \div g]

NaN == [num |-> 0, den |-> 0]
Zero == [num |-> 0, den |-> 1]
IsNaN(q) == q.den = 0

\* Python's / and * on a count: c / n * 100.
Percent(c, n) == Frac(100 * c, n)

Pow10(k) == IF k = 0 THEN 1 ELSE IF k = 1 THEN 10 ELSE 100

\* round(q, k): to k decimals, ties to even; NaN stays NaN.
Round(q, k) ==
    IF IsNaN(q) THEN NaN
    ELSE LET s    == q.num * Pow10(k)
             fl   == s \div q.den
             rem2 == 2 * (s % q.den)
             r    == IF rem2 > q.den THEN fl + 1
                     ELSE IF rem2 < q.den THEN fl
                     ELSE IF fl % 2 = 0 THEN fl ELSE fl + 1
         IN  Frac(r, Pow10(k))

\* x >= q for an integer x and a float q: False against NaN.
GeFrac(x, q) == q.den # 0 /\ x * q.den >= q.num

-----------------------------------------------------------------------------
(* Sequences.                                                              *)

RECURSIVE SumSeq(_)
SumSeq(s) == IF s = <<>> THEN 0 ELSE Head(s) + SumSeq(Tail(s))

\* The rows of t, in order, for which the mask holds: t[mask].
Keep(t, Mask(_)) == SelectSeq(t, Mask)

\* One column of a table.
Column(t, Col(_)) == [i \in 1..Len(t) |-> Col(t[i])]

\* The non-null cells of a column, unwrapped (dropna).
DropNa(cells) ==
    LET kept == SelectSeq(cells, NotNull)
    IN  [i \in 1..Len(kept) |-> Val(kept[i])]

\* Insert x into the ascending sequence s.
RECURSIVE Insert(_, _)
Insert(x, s) ==
    IF s = <<>> THEN <<x>>
    ELSE IF x <= Head(s) THEN <<x>> \o s
    ELSE <<Head(s)>> \o Insert(x, Tail(s))

RECURSIVE SortAsc(_)
SortAsc(s) == IF s = <<>> THEN <<>> ELSE Insert(Head(s), SortAsc(Tail(s)))

\* Series.mean(): NaN cells are skipped; NaN when nothing is left.
Mean(t, Col(_)) ==
    LET xs == DropNa(Column(t, Col))
    IN  IF xs = <<>> THEN NaN ELSE Frac(SumSeq(xs), Len(xs))

\* Series.quantile(0.75): linear interpolation over the non-null values.
Quantile75(xs) ==
    IF xs = <<>> THEN NaN
    ELSE LET v  == SortAsc(xs)
             n  == Len(v)
             lo == (3 * (n - 1)) \div 4
             r  == (3 * (n - 1)) % 4
         IN  IF r = 0 THEN Frac(v[lo + 1], 1)
             ELSE Frac(4 * v[lo + 1] + r * (v[lo + 2] - v[lo + 1]), 4)

-----------------------------------------------------------------------------
(* Dates and times: pd.to_datetime(Date + ' ' + Time,                      *)
(* format='%Y-%m-%d %H:%M:%S', errors='coerce') and the .dt accessors.     *)

NaT == <<>>

IsLeap(y) == (y % 4 = 0 /\ y % 100 # 0) \/ y % 400 = 0

DaysInMonth(y, m) ==
    IF m = 2 THEN (IF IsLeap(y) THEN 29 ELSE 28)
    ELSE IF m \in {4, 6, 9, 11} THEN 30 ELSE 31

\* A null Date or Time makes the concatenated text null; a text that does
\* not name a calendar date and a time of day is coerced to NaT.
to_datetime(date, time) ==
    IF Len(date) # 3 \/ Len(time) # 3 THEN NaT
    ELSE IF /\ date[2] \in 1..12
            /\ date[3] \in 1..DaysInMonth(date[1], date[2])
            /\ time[1] \in 0..23
            /\ time[2] \in 0..59
            /\ time[3] \in 0..59
         THEN date \o time
         ELSE NaT

\* .dt.hour
dt_hour(ts) == IF ts = NaT THEN Null ELSE Some(ts[4])

\* .dt.date
dt_date(ts) == IF ts = NaT THEN Null ELSE Some(<<ts[1], ts[2], ts[3]>>)

\* .dt.to_period('M') of a grouping that keeps the null key as a period of
\* its own (dropna=False).
dt_period_M_nat_kept(ts) ==
    IF ts = NaT THEN Some(<<0, 0>>) ELSE Some(<<ts[1], ts[2]>>)

\* .dt.to_period('M')
dt_period_M(ts) == IF ts = NaT THEN Null ELSE Some(<<ts[1], ts[2]>>)

day_order == <<"Monday", "Tuesday", "Wednesday", "Thursday", "Friday",
               "Saturday", "Sunday">>

\* Day of the week of a calendar date, 1 = Monday .. 7 = Sunday.
Weekday(y, m, d) ==
    LET t  == <<0, 3, 2, 5, 0, 3, 5, 1, 4, 6, 2, 4>>
        yy == IF m < 3 THEN y - 1 ELSE y
        w  == (yy + yy \div 4 - yy \div 100 + yy \div 400 + t[m] + d) % 7
    IN  IF w = 0 THEN 7 ELSE w

\* .dt.day_name()
dt_day_name(ts) ==
    IF ts = NaT THEN Null ELSE Some(day_order[Weekday(ts[1], ts[2], ts[3])])

month_names == <<"January", "February", "March", "April", "May", "June",
                 "July", "August", "September", "October", "November",
                 "December">>

\* .dt.month_name()
dt_month_name(ts) == IF ts = NaT THEN Null ELSE Some(month_names[ts[2]])

\* a <= b on calendar dates.
DateLE(a, b) ==
    \/ a[1] < b[1]
    \/ a[1] = b[1] /\ a[2] < b[2]
    \/ a[1] = b[1] /\ a[2] = b[2] /\ a[3] <= b[3]

-----------------------------------------------------------------------------
(* The rows a CSV is made of.  Booking Value, Driver Ratings, Avg CTAT,    *)
(* Ride Distance and Payment Method are empty in part of the rows; a date  *)
(* or time text may be unparsable; a status may be outside the known ones. *)

Row(date, time, vtype, status, value, payment, rating, ctat, distance) ==
    [Date |-> date, Time |-> time, Vehicle_Type |-> vtype,
     Booking_Status |-> status, Booking_Value |-> value,
     Payment_Method |-> payment, Driver_Ratings |-> rating,
     Avg_CTAT |-> ctat, Ride_Distance |-> distance]

Fri == <<2024, 1, 5>>
Mon == <<2024, 2, 5>>

row1 == Row(Fri, <<8, 15, 0>>, "Auto", "Completed",
            Some(100), Some("UPI"), Some(4), Some(25), Some(5))
row2 == Row(Mon, <<17, 40, 0>>, "Auto", "Cancelled by Customer",
            Some(50), Null, Null, Some(8), Null)
row3 == Row(Mon, <<17, 5, 0>>, "Go Sedan", "Completed",
            Some(300), Some("UPI"), Some(5), Some(40), Some(12))
row4 == Row(<<2024, 2, 30>>, <<9, 0, 0>>, "Go Sedan", "No Driver Found",
            Null, Null, Null, Null, Null)
row5 == Row(Fri, <<17, 0, 0>>, "Go Sedan", "Cancelled by Driver",
            Null, Null, Null, Some(10), Null)
row6 == Row(Fri, <<17, 59, 59>>, "Auto", "Incomplete",
            Some(0), Some("UPI"), Null, Some(30), Some(2))
row7 == Row(Mon, <<8, 0, 0>>, "Go Sedan", "Completed",
            Null, Some("Cash"), Null, Some(0), Some(7))
row8 == Row(Fri, <<24, 0, 0>>, "Auto", "Completed",
            Some(200), Some("UPI"), Some(3), Some(31), Some(9))

Rows == {row1, row2, row3, row4, row5, row6, row7, row8}

\* The rows the dashboard's CSV is drawn from.
AppRows == {row1, row3, row4}

\* All CSVs of 1..n rows over a set of rows.
Files(rows, n) == UNION {[1..k -> rows] : k \in 1..n}

\* pd.read_csv: one DataFrame row per line, labelled 1, 2, ... (the index);
\* the Booking ID of a line is taken as its line number.
read_csv(f) ==
    [i \in 1..Len(f) |->
        [index |-> i, Booking_ID |-> Some(i), Date |-> f[i].Date,
         Time |-> f[i].Time, Vehicle_Type |-> f[i].Vehicle_Type,
         Booking_Status |-> f[i].Booking_Status,
         Booking_Value |-> f[i].Booking_Value,
         Payment_Method |-> f[i].Payment_Method,
         Driver_Ratings |-> f[i].Driver_Ratings,
         Avg_CTAT |-> f[i].Avg_CTAT,
         Ride_Distance |-> f[i].Ride_Distance]]

-----------------------------------------------------------------------------
(* src/src/preprocess.py                                                   *)

ColBookingValue(r) == r.Booking_Value
ColDriverRatings(r) == r.Driver_Ratings
ColRideDistance(r) == r.Ride_Distance
ColRevenue(r) == r.Revenue
IsCompleted(r) == r.Booking_Status = "Completed"

\* fillna('No Payment')
fillna(c, v) == IF IsNull(c) THEN Some(v) ELSE c

\* Revenue without the test of the status: Booking Value for every ride.
Revenue_unconditional(r) == r.Booking_Value

\* Booking Value for Completed rides only, 0 for the others.
Revenue(r) ==
    IF r.Booking_Status = "Completed" THEN r.Booking_Value ELSE Some(0)

\* 75th percentile of Booking Value over the Completed rows of t.
booking_value_threshold(t) ==
    Quantile75(DropNa(Column(Keep(t, IsCompleted), ColBookingValue)))

\* 1 if x >= booking_value_threshold else 0; a null x compares False.
High_Value_Trip(x, threshold) ==
    IF NotNull(x) /\ GeFrac(Val(x), threshold) THEN 1 ELSE 0

\* pd.cut(bins=[0, 10, 30, inf], labels=[Short, Medium, Long],
\* include_lowest=True): [0, 10], (10, 30], (30, inf); else null.
Trip_Duration_Category(x) ==
    IF IsNull(x) \/ Val(x) < 0 THEN Null
    ELSE IF Val(x) <= 10 THEN Some("Short")
    ELSE IF Val(x) <= 30 THEN Some("Medium")
    ELSE Some("Long")

\* 1 if Hour in [7, 8, 9, 17, 18, 19] else 0.
Is_Peak_Hour(h) ==
    IF NotNull(h) /\ Val(h) \in {7, 8, 9, 17, 18, 19} THEN 1 ELSE 0

\* The new columns of one row, given the threshold of the whole table.
Augment(r, threshold) ==
    LET ts == to_datetime(r.Date, r.Time)
    IN  [index |-> r.index, Booking_ID |-> r.Booking_ID, Date |-> r.Date,
         Time |-> r.Time, Vehicle_Type |-> r.Vehicle_Type,
         Booking_Status |-> r.Booking_Status,
         Booking_Value |-> r.Booking_Value,
         Payment_Method |-> fillna(r.Payment_Method, "No Payment"),
         Driver_Ratings |-> r.Driver_Ratings, Avg_CTAT |-> r.Avg_CTAT,
         Ride_Distance |-> r.Ride_Distance,
         Timestamp |-> ts, Hour |-> dt_hour(ts),
         Day_of_Week |-> dt_day_name(ts), Month |-> dt_month_name(ts),
         Revenue |-> Revenue(r),
         High_Value_Trip |-> High_Value_Trip(r.Booking_Value, threshold),
         Trip_Duration_Category |-> Trip_Duration_Category(r.Avg_CTAT),
         Is_Peak_Hour |-> Is_Peak_Hour(dt_hour(ts))]

\* The columns of data/ncr_ride_bookings.csv the dashboard reads.
csv_header ==
    {"Booking ID", "Date", "Time", "Vehicle Type", "Booking Status",
     "Booking Value", "Payment Method", "Driver Ratings", "Avg CTAT",
     "Ride Distance"}

\* The columns add_derived_features reads from its input, df[name]: a name
\* that is no column of the table raises pandas' KeyError there, whatever
\* the rows.  No line of the function tests for a column beforehand.
columns_read ==
    {"Payment Method", "Date", "Time", "Booking Status", "Booking Value",
     "Avg CTAT"}

\* The exception that ends add_derived_features on a table with the
\* columns cols ("" when it returns).
add_derived_features_raises(cols) ==
    IF columns_read \subseteq cols THEN "" ELSE "KeyError"

\* The new columns written to the caller's table itself (no copy taken).
WorkingCopy_in_place(t) == [copied |-> FALSE, table |-> t]

\* df = df.copy(): the table the new columns are written to.
WorkingCopy(t) == [copied |-> TRUE, table |-> t]

\* add_derived_features(df): the returned table, and the caller's table as
\* it is once the call has returned (the columns are assigned to the
\* working table: to the caller's own table when that is no copy).
add_derived_features(t) ==
    LET work      == WorkingCopy(t)
        threshold == booking_value_threshold(work.table)
        out       == [i \in 1..Len(t) |-> Augment(work.table[i], threshold)]
    IN  [returned |-> out, input |-> IF work.copied THEN t ELSE out]

-----------------------------------------------------------------------------
(* src/src/metrics.py                                                      *)

\* StatusCount by a test on the first word of the status (a str.contains
\* test): both kinds of cancellation count for either.
StatusCount_contains(t, status) ==
    LET Cancelled == {"Cancelled by Customer", "Cancelled by Driver"}
        Is(r) == IF status \in Cancelled THEN r.Booking_Status \in Cancelled
                 ELSE r.Booking_Status = status
    IN  Len(Keep(t, Is))

\* len(df[df['Booking Status'] == status])
StatusCount(t, status) ==
    LET Is(r) == r.Booking_Status = status
    IN  Len(Keep(t, Is))

\* calculate_ride_metrics with the means taken without the test of len(df).
calculate_ride_metrics_unguarded(t) ==
    [total_rides |-> Len(t),
     success_rate |->
        IF Len(t) > 0
        THEN Percent(Len(SelectSeq(t, IsCompleted)), Len(t)) ELSE Zero,
     customer_cancellation_rate |->
        IF Len(t) > 0
        THEN Percent(Cardinality({i \in 1..Len(t) :
                t[i].Booking_Status = "Cancelled by Customer"}), Len(t))
        ELSE Zero,
     driver_cancellation_rate |->
        IF Len(t) > 0
        THEN Percent(Cardinality({i \in 1..Len(t) :
                t[i].Booking_Status = "Cancelled by Driver"}), Len(t))
        ELSE Zero,
     avg_revenue |-> Mean(t, ColRevenue),
     avg_driver_rating |-> Mean(t, ColDriverRatings)]

\* calculate_ride_metrics with avg_revenue taken from the Booking Value
\* column, as the vehicle type table takes its Average Revenue.
calculate_ride_metrics_booking_value(t) ==
    [total_rides |-> Len(t),
     success_rate |->
        IF Len(t) > 0
        THEN Percent(Len(SelectSeq(t, IsCompleted)), Len(t)) ELSE Zero,
     customer_cancellation_rate |->
        IF Len(t) > 0
        THEN Percent(Cardinality({i \in 1..Len(t) :
                t[i].Booking_Status = "Cancelled by Customer"}), Len(t))
        ELSE Zero,
     driver_cancellation_rate |->
        IF Len(t) > 0
        THEN Percent(Cardinality({i \in 1..Len(t) :
                t[i].Booking_Status = "Cancelled by Driver"}), Len(t))
        ELSE Zero,
     avg_revenue |-> IF Len(t) > 0 THEN Mean(t, ColBookingValue) ELSE Zero,
     avg_driver_rating |->
        IF Len(t) > 0 THEN Mean(t, ColDriverRatings) ELSE Zero]

calculate_ride_metrics(t) ==
    [total_rides |-> Len(t),
     success_rate |->
        IF Len(t) > 0 THEN Percent(StatusCount(t, "Completed"), Len(t))
        ELSE Zero,
     customer_cancellation_rate |->
        IF Len(t) > 0
        THEN Percent(StatusCount(t, "Cancelled by Customer"), Len(t))
        ELSE Zero,
     driver_cancellation_rate |->
        IF Len(t) > 0
        THEN Percent(StatusCount(t, "Cancelled by Driver"), Len(t))
        ELSE Zero,
     avg_revenue |-> IF Len(t) > 0 THEN Mean(t, ColRevenue) ELSE Zero,
     avg_driver_rating |->
        IF Len(t) > 0 THEN Mean(t, ColDriverRatings) ELSE Zero]

\* The members of a finite set, ascending by an injective rank.
SortedBy(S, Rank(_)) ==
    [i \in 1..Cardinality(S) |->
        CHOOSE x \in S : Cardinality({y \in S : Rank(y) < Rank(x)}) = i - 1]

\* The group keys of df.groupby(key): the distinct non-null keys (a row
\* with a null key is in no group).
GroupKeys(t, Key(_)) ==
    {Val(Key(t[i])) : i \in {j \in 1..Len(t) : NotNull(Key(t[j]))}}

\* 'Booking ID': 'count' within the group of key k: its non-null cells.
GroupCount(t, Key(_), k) ==
    Cardinality({i \in 1..Len(t) :
                    Key(t[i]) = Some(k) /\ NotNull(t[i].Booking_ID)})

KeyHour(r) == dt_hour(r.Timestamp)
KeyDayName(r) == dt_day_name(r.Timestamp)
KeyPeriod(r) == dt_period_M(r.Timestamp)

\* groupby sorts its keys: numbers ascending, texts alphabetically,
\* periods chronologically.
alphabetical_days == <<"Friday", "Monday", "Saturday", "Sunday",
                       "Thursday", "Tuesday", "Wednesday">>

IndexIn(s, x) == CHOOSE i \in 1..Len(s) : s[i] = x

HourRank(h) == h
DayAlphaRank(d) == IndexIn(alphabetical_days, d)
PeriodRank(p) == 12 * p[1] + p[2]

\* pd.Categorical(.., categories=day_order, ordered=True): a day's code.
DayCode(d) == IndexIn(day_order, d)

\* The rows left in the order groupby gave them (sort_values not applied).
sort_values_day_skipped(rows) == rows

\* volume_data.sort_values('Day of Week'): the rows by category code.
sort_values_day(rows) ==
    LET S       == {rows[i] : i \in 1..Len(rows)}
        Code(r) == DayCode(r.Day_of_Week)
    IN  SortedBy(S, Code)

\* str(Period('YYYY-MM', 'M')): the digits "YYYY-MM".
period_str(p) ==
    <<p[1] \div 1000, (p[1] \div 100) % 10, (p[1] \div 10) % 10, p[1] % 10,
      "-", p[2] \div 10, p[2] % 10>>

\* list(range(24))
x_tickvals_hour == [i \in 1..24 |-> i - 1]

\* [f"{h:02d}:00" for h in range(24)]
x_ticktext_hour == [i \in 1..24 |-> <<(i - 1) \div 10, (i - 1) % 10, ":", 0, 0>>]

\* volume_by_hour reindexed over range(24): a bucket of 0 for a missing hour.
volume_by_hour_reindexed(t) ==
    [i \in 1..24 |->
        [Hour |-> i - 1, Ride_Volume |-> GroupCount(t, KeyHour, i - 1)]]

volume_by_hour(t) ==
    LET keys == SortedBy(GroupKeys(t, KeyHour), HourRank)
    IN  [i \in 1..Len(keys) |->
            [Hour |-> keys[i],
             Ride_Volume |-> GroupCount(t, KeyHour, keys[i])]]

volume_by_day(t) ==
    LET keys    == SortedBy(GroupKeys(t, KeyDayName), DayAlphaRank)
        grouped == [i \in 1..Len(keys) |->
                       [Day_of_Week |-> keys[i],
                        Ride_Volume |-> GroupCount(t, KeyDayName, keys[i])]]
    IN  sort_values_day(grouped)

volume_by_month(t) ==
    LET keys == SortedBy(GroupKeys(t, KeyPeriod), PeriodRank)
    IN  [i \in 1..Len(keys) |->
            [Month |-> period_str(keys[i]),
             Ride_Volume |-> GroupCount(t, KeyPeriod, keys[i])]]

prepare_volume_data(t, granularity) ==
    IF granularity = "Hour"
    THEN [volume_data |-> volume_by_hour(t), x_col |-> "Hour",
          x_title |-> "Hour of Day", x_tickvals |-> x_tickvals_hour,
          x_ticktext |-> x_ticktext_hour]
    ELSE IF granularity = "Day of Week"
    THEN [volume_data |-> volume_by_day(t), x_col |-> "Day of Week",
          x_title |-> "Day of Week", x_tickvals |-> <<>>,
          x_ticktext |-> <<>>]
    ELSE [volume_data |-> volume_by_month(t), x_col |-> "Month",
          x_title |-> "Month", x_tickvals |-> <<>>, x_ticktext |-> <<>>]

\* groupby('Vehicle Type') sorts the types alphabetically.
alphabetical_vehicles == <<"Auto", "Go Sedan">>
VehicleRank(v) == IndexIn(alphabetical_vehicles, v)
KeyVehicle(r) == Some(r.Vehicle_Type)

\* StatusRate without the * 100: a fraction of 1.
StatusRate_fraction(g, statuses) ==
    LET Is(r) == r.Booking_Status \in statuses
    IN  Frac(Len(Keep(g, Is)), Len(g))

\* (x == s1).mean() * 100 or ((x == s1) | (x == s2)).mean() * 100 over the
\* statuses x of one group.
StatusRate(g, statuses) ==
    LET Is(r) == r.Booking_Status \in statuses
    IN  Percent(Len(Keep(g, Is)), Len(g))

\* The row of one vehicle type, rounded for display.
vehicle_row(t, v) ==
    LET InGroup(r) == r.Vehicle_Type = v
        g == Keep(t, InGroup)
    IN  [Vehicle_Type |-> v,
         Total_Bookings |-> Len(g),
         Success_Rate |-> Round(StatusRate(g, {"Completed"}), 1),
         Incomplete_Rate |-> Round(StatusRate(g, {"Incomplete"}), 1),
         Cancellation_Rate |->
            Round(StatusRate(g, {"Cancelled by Customer",
                                 "Cancelled by Driver"}), 1),
         Average_Revenue |-> Round(Mean(g, ColBookingValue), 2),
         Average_Distance |-> Round(Mean(g, ColRideDistance), 2),
         Average_Driver_Rating |-> Round(Mean(g, ColDriverRatings), 2)]

vehicle_type_metrics_dataframe(t) ==
    LET keys == SortedBy(GroupKeys(t, KeyVehicle), VehicleRank)
    IN  [i \in 1..Len(keys) |-> vehicle_row(t, keys[i])]

-----------------------------------------------------------------------------
(* The library functions called one at a time on a record set: a CSV is    *)
(* read and augmented, the caller selects any subset of the augmented rows *)
(* (the already filtered record set) and calls a metrics function on it.   *)

NoMetrics ==
    [total_rides |-> 0, success_rate |-> Zero,
     customer_cancellation_rate |-> Zero, driver_cancellation_rate |-> Zero,
     avg_revenue |-> Zero, avg_driver_rating |-> Zero]

NoVolume ==
    [volume_data |-> <<>>, x_col |-> "", x_title |-> "", x_tickvals |-> <<>>,
     x_ticktext |-> <<>>]

Granularities == {"Hour", "Day of Week", "Month"}

\* The widgets and outputs of the dashboard before its script has run.
AppIdle ==
    /\ loads = 0
    /\ vehicle_checked = {}
    /\ status_checked = {}
    /\ payment_checked = {}
    /\ date_range = <<>>
    /\ hours = <<0, 23>>
    /\ volume_granularity = "Hour"
    /\ warning = FALSE
    /\ csv = <<>>
    /\ metrics = NoMetrics
    /\ volume = NoVolume
    /\ vh_metrics_df = <<>>
    /\ error = ""

\* The CSV has every column, or lacks one of those add_derived_features
\* reads.
Headers == {csv_header} \cup {csv_header \ {c} : c \in columns_read}

InitFn ==
    /\ file \in Files(Rows, MaxRows)
    /\ columns \in Headers
    /\ raw = read_csv(file)
    /\ df = <<>>
    /\ filtered_df = <<>>
    /\ call = ""
    /\ ret = <<>>
    /\ AppIdle

\* df = add_derived_features(raw)
CallAddDerivedFeatures ==
    /\ call = ""
    /\ IF add_derived_features_raises(columns) # ""
       THEN /\ error' = add_derived_features_raises(columns)
            /\ UNCHANGED <<raw, df, filtered_df, ret, call>>
       ELSE /\ LET r == add_derived_features(raw)
               IN  /\ raw' = r.input
                   /\ df' = r.returned
                   /\ filtered_df' = r.returned
                   /\ ret' = r.returned
            /\ call' = "add_derived_features"
            /\ error' = error
    /\ UNCHANGED <<file, columns, loads, vehicle_checked, status_checked,
                   payment_checked, date_range, hours, volume_granularity,
                   warning, csv, metrics, volume, vh_metrics_df>>

\* The caller's filter: any selection of rows of the augmented table.
SelectRows ==
    /\ call = "add_derived_features"
    /\ \E keep \in SUBSET (1..Len(df)) :
          LET Kept(r) == r.index \in keep
          IN  filtered_df' = Keep(df, Kept)
    /\ call' = "filter"
    /\ ret' = <<>>
    /\ UNCHANGED <<file, columns, raw, df, appVars>>

CallCalculateRideMetrics ==
    /\ call # ""
    /\ call' = "calculate_ride_metrics"
    /\ ret' = calculate_ride_metrics(filtered_df)
    /\ UNCHANGED <<file, columns, raw, df, filtered_df, appVars>>

CallPrepareVolumeData ==
    /\ call # ""
    /\ \E g \in Granularities :
          /\ call' = g
          /\ ret' = prepare_volume_data(filtered_df, g)
    /\ UNCHANGED <<file, columns, raw, df, filtered_df, appVars>>

\* Called on a non-empty record set, as the dashboard does.
CallVehicleTypeMetrics ==
    /\ call # ""
    /\ filtered_df # <<>>
    /\ call' = "vehicle_type_metrics_dataframe"
    /\ ret' = vehicle_type_metrics_dataframe(filtered_df)
    /\ UNCHANGED <<file, columns, raw, df, filtered_df, appVars>>

NextFn ==
    \/ CallAddDerivedFeatures
    \/ SelectRows
    \/ CallCalculateRideMetrics
    \/ CallPrepareVolumeData
    \/ CallVehicleTypeMetrics

SpecFn == InitFn /\ [][NextFn]_vars

-----------------------------------------------------------------------------
(* src/app.py: the Streamlit script.  It runs from top to bottom once when *)
(* the page is opened and once after every change of a widget.             *)

\* df[col].unique()
unique(t, Col(_)) == {Col(t[i]) : i \in 1..Len(t)}

ColVehicleType(r) == r.Vehicle_Type
ColBookingStatus(r) == r.Booking_Status
ColPaymentMethod(r) == Val(r.Payment_Method)

\* The boxes ticked among the options, or every option when none is.
selected(checked, options) ==
    IF checked \cap options = {} THEN options ELSE checked \cap options

\* [df['Timestamp'].min().date(), df['Timestamp'].max().date()]
default_date_range(t) ==
    LET dates == {Val(dt_date(t[i].Timestamp)) :
                     i \in {j \in 1..Len(t) : t[j].Timestamp # NaT}}
    IN  <<CHOOSE a \in dates : \A b \in dates : DateLE(a, b),
          CHOOSE a \in dates : \A b \in dates : DateLE(b, a)>>

\* Series.between(lo, hi) with the bounds lo < x < hi excluded.
between_exclusive(x, lo, hi) == NotNull(x) /\ lo < Val(x) /\ Val(x) < hi

\* Series.between(lo, hi): inclusive on both sides, False for a null.
between(x, lo, hi) == NotNull(x) /\ lo <= Val(x) /\ Val(x) <= hi

\* (dt.date >= date_range[0]) & (dt.date <= date_range[1]); NaT is False.
in_date_range(ts, range) ==
    /\ ts # NaT
    /\ DateLE(range[1], Val(dt_date(ts)))
    /\ DateLE(Val(dt_date(ts)), range[2])

\* The selection of the sidebar, as the script hands it to the filter.
Selection(t, vc, sc, pc, range, hr) ==
    [vehicles |-> selected(vc, unique(t, ColVehicleType)),
     statuses |-> selected(sc, unique(t, ColBookingStatus)),
     payments |-> selected(pc, unique(t, ColPaymentMethod)),
     date_range |-> range, hours |-> hr]

\* The boolean mask of app.py:76-82 for one row.
filter_mask(r, sel) ==
    /\ r.Vehicle_Type \in sel.vehicles
    /\ in_date_range(r.Timestamp, sel.date_range)
    /\ between(r.Hour, sel.hours[1], sel.hours[2])
    /\ r.Booking_Status \in sel.statuses
    /\ Val(r.Payment_Method) \in sel.payments

\* The filter applied before the features are derived: the selected rows
\* augmented again, with a threshold of their own.
boolean_index_rederived(t, sel) ==
    LET Mask(r) == filter_mask(r, sel)
        kept    == Keep(t, Mask)
        th      == booking_value_threshold(kept)
    IN  [i \in 1..Len(kept) |->
            [kept[i] EXCEPT !.High_Value_Trip =
                High_Value_Trip(kept[i].Booking_Value, th)]]

\* df[mask]: the rows of the base table the mask holds for, as they are.
boolean_index(t, sel) ==
    LET Mask(r) == filter_mask(r, sel)
    IN  Keep(t, Mask)

\* The empty selection handed on as it is (no fallback).
empty_fallback_skipped(filtered, t) == filtered

\* if filtered_df.empty: filtered_df = df.copy()
empty_fallback(filtered, t) == IF filtered = <<>> THEN t ELSE filtered

csv_columns ==
    <<"Booking ID", "Date", "Time", "Vehicle Type", "Booking Status",
      "Booking Value", "Payment Method", "Driver Ratings", "Avg CTAT",
      "Ride Distance", "Timestamp", "Hour", "Day_of_Week", "Month",
      "Revenue", "High_Value_Trip", "Trip_Duration_Category",
      "Is_Peak_Hour">>

\* to_csv(index=False): a header line and a line per row; a cell is the
\* text of its value, a null cell the empty text.
to_csv(t) ==
    <<csv_columns>> \o
    [i \in 1..Len(t) |->
        <<t[i].Booking_ID, t[i].Date, t[i].Time, <<t[i].Vehicle_Type>>,
          <<t[i].Booking_Status>>, t[i].Booking_Value, t[i].Payment_Method,
          t[i].Driver_Ratings, t[i].Avg_CTAT, t[i].Ride_Distance,
          t[i].Timestamp, t[i].Hour, t[i].Day_of_Week, t[i].Month,
          t[i].Revenue, <<t[i].High_Value_Trip>>,
          t[i].Trip_Duration_Category, <<t[i].Is_Peak_Hour>>>>]

\* load_data() under st.cache_data: the body runs when nothing is cached.
\* An exception of add_derived_features leaves load_data without a result:
\* nothing is cached and the exception ends the script run.
load_data ==
    IF loads = 0
    THEN IF add_derived_features_raises(columns) # ""
         THEN [table |-> <<>>, read |-> read_csv(file), ran |-> 0,
               raised |-> add_derived_features_raises(columns)]
         ELSE LET r == add_derived_features(read_csv(file))
              IN  [table |-> r.returned, read |-> r.input, ran |-> 1,
                   raised |-> ""]
    ELSE [table |-> df, read |-> raw, ran |-> 0, raised |-> ""]

\* One run of the script with the widgets at the given values.  With a
\* date range of one date (the user has picked the start only)
\* date_range[1] raises IndexError at app.py:78 and the run ends there: the
\* widgets below that line are not rendered and nothing is computed.
ScriptRun(vc, sc, pc, range, hr, granularity) ==
    \E loaded \in {load_data} :
       /\ loads' = loads + loaded.ran
       /\ raw' = loaded.read
       /\ df' = loaded.table
       /\ vehicle_checked' = vc
       /\ status_checked' = sc
       /\ payment_checked' = pc
       /\ date_range' = range
       /\ hours' = hr
       /\ IF Len(range) < 2
          THEN /\ error' = "IndexError"
               /\ volume_granularity' = "Hour"
               /\ filtered_df' = <<>>
               /\ warning' = FALSE
               /\ csv' = <<>>
               /\ metrics' = NoMetrics
               /\ volume' = NoVolume
               /\ vh_metrics_df' = <<>>
          ELSE \E sel \in {Selection(loaded.table, vc, sc, pc, range, hr)} :
               \E hit \in {boolean_index(loaded.table, sel)} :
               \E view \in {empty_fallback(hit, loaded.table)} :
                  /\ error' = ""
                  /\ volume_granularity' = granularity
                  /\ filtered_df' = view
                  /\ warning' = (hit = <<>>)
                  /\ csv' = to_csv(view)
                  /\ metrics' = calculate_ride_metrics(view)
                  /\ volume' = prepare_volume_data(view, granularity)
                  /\ vh_metrics_df' = vehicle_type_metrics_dataframe(view)
       /\ UNCHANGED <<file, columns, call, ret>>

\* The dates and the ends of the hour slider the user picks among.
PickDates == {Fri, Mon}
HourStops == {8, 17}

HasTimestamp(f) ==
    \E i \in 1..Len(f) : to_datetime(f[i].Date, f[i].Time) # NaT

\* The page is not open yet.  The CSV has a row with a parsable timestamp.
Init ==
    /\ file \in {f \in Files(AppRows, MaxFileRows) : HasTimestamp(f)}
    /\ columns \in Headers
    /\ raw = <<>>
    /\ df = <<>>
    /\ filtered_df = <<>>
    /\ call = ""
    /\ ret = <<>>
    /\ AppIdle

opened == date_range # <<>>

\* The page is opened: every box ticked, the whole date range, all hours.
\* df = load_data() raised (app.py:31): the run ends before any widget is
\* rendered and Streamlit shows the exception in place of the page.
StartupFailure ==
    /\ error' = load_data.raised
    /\ UNCHANGED <<file, columns, loads, raw, df, vehicle_checked,
                   status_checked, payment_checked, date_range, hours,
                   volume_granularity, filtered_df, warning, csv, metrics,
                   volume, vh_metrics_df, call, ret>>

Open ==
    /\ ~opened
    /\ IF load_data.raised # ""
       THEN StartupFailure
       ELSE \E base \in {load_data.table} :
               ScriptRun(unique(base, ColVehicleType),
                         unique(base, ColBookingStatus),
                         unique(base, ColPaymentMethod),
                         default_date_range(base), <<0, 23>>, "Hour")

Toggle(S, x) == IF x \in S THEN S \ {x} ELSE S \cup {x}

ToggleVehicle ==
    /\ opened
    /\ \E v \in unique(df, ColVehicleType) :
          ScriptRun(Toggle(vehicle_checked, v), status_checked,
                    payment_checked, date_range, hours, volume_granularity)

ToggleStatus ==
    /\ opened
    /\ \E s \in unique(df, ColBookingStatus) :
          ScriptRun(vehicle_checked, Toggle(status_checked, s),
                    payment_checked, date_range, hours, volume_granularity)

TogglePayment ==
    /\ opened
    /\ \E p \in unique(df, ColPaymentMethod) :
          ScriptRun(vehicle_checked, status_checked,
                    Toggle(payment_checked, p), date_range, hours,
                    volume_granularity)

\* The first click in the calendar: the range holds the start date only.
PickStartDate ==
    /\ opened
    /\ \E a \in PickDates :
          ScriptRun(vehicle_checked, status_checked, payment_checked,
                    <<a>>, hours, volume_granularity)

\* The second click: the end date, not before the start.
PickEndDate ==
    /\ opened
    /\ Len(date_range) = 1
    /\ \E b \in PickDates :
          /\ DateLE(date_range[1], b)
          /\ ScriptRun(vehicle_checked, status_checked, payment_checked,
                       <<date_range[1], b>>, hours, volume_granularity)

MoveHourSlider ==
    /\ opened
    /\ \E lo \in HourStops, hi \in HourStops :
          /\ lo <= hi
          /\ ScriptRun(vehicle_checked, status_checked, payment_checked,
                       date_range, <<lo, hi>>, volume_granularity)

\* The selectbox is there only when the last run got to it.
SelectGranularity ==
    /\ opened
    /\ error = ""
    /\ \E g \in Granularities :
          ScriptRun(vehicle_checked, status_checked, payment_checked,
                    date_range, hours, g)

\* A click on "Download CSV": the payload of the last run is sent and the
\* script runs again with the widgets as they are.
Download ==
    /\ opened
    /\ error = ""
    /\ ScriptRun(vehicle_checked, status_checked, payment_checked,
                 date_range, hours, volume_granularity)

Next ==
    \/ Open
    \/ ToggleVehicle
    \/ ToggleStatus
    \/ TogglePayment
    \/ PickStartDate
    \/ PickEndDate
    \/ MoveHourSlider
    \/ SelectGranularity
    \/ Download

Spec == Init /\ [][Next]_vars

-----------------------------------------------------------------------------
(* Properties of the dashboard (specification Spec).                       *)

\* C3: the High-Value threshold is computed once, at load, from the
\* Completed rows of the unfiltered dataset: after any sequence of filter
\* changes load_data has run once, every row of the filtered view carries
\* the High_Value_Trip flag the row has in the base table, and that flag is
\* the one of the threshold of the whole CSV, never of the filtered subset.
C3_FlagsFixedAtLoad ==
    opened =>
        /\ loads = 1
        /\ \A k \in 1..Len(filtered_df) :
              LET i == filtered_df[k].index
              IN  /\ i \in 1..Len(df)
                  /\ filtered_df[k].High_Value_Trip = df[i].High_Value_Trip
                  /\ filtered_df[k].High_Value_Trip =
                        High_Value_Trip(file[i].Booking_Value,
                            booking_value_threshold(read_csv(file)))

\* A filtered view whose own 75th percentile would flag a row that the
\* base table does not flag.
C3_Witness ==
    /\ opened
    /\ error = ""
    /\ ~warning
    /\ Len(filtered_df) < Len(df)
    /\ \E k \in 1..Len(filtered_df) :
          /\ filtered_df[k].High_Value_Trip = 0
          /\ High_Value_Trip(filtered_df[k].Booking_Value,
                             booking_value_threshold(filtered_df)) = 1

\* C4: the base table is loaded and augmented once and never changed
\* afterwards: no interaction (filter change, granularity change, export,
\* empty-result fallback included) changes a row or a cell of it, and
\* add_derived_features leaves the table read from the CSV as it was.
C4_BaseTableNeverChanges ==
    [][/\ loads' # 0 => raw' = read_csv(file')
       /\ loads # 0 => (df' = df /\ raw' = raw /\ loads' = loads)]_vars

\* The fallback has replaced an empty selection by the whole base table,
\* after a change of granularity, and the base table is as it was loaded.
C4_Witness ==
    /\ opened
    /\ warning
    /\ volume_granularity = "Month"
    /\ Len(df) = 2
    /\ filtered_df = df
    /\ raw = read_csv(file)

\* The user's current selection, a category without a ticked box counting
\* as all of its values.
ChosenVehicles ==
    IF vehicle_checked = {} THEN {df[i].Vehicle_Type : i \in 1..Len(df)}
    ELSE vehicle_checked
ChosenStatuses ==
    IF status_checked = {} THEN {df[i].Booking_Status : i \in 1..Len(df)}
    ELSE status_checked
PaymentOf(i) ==
    IF file[i].Payment_Method = <<>> THEN "No Payment"
    ELSE file[i].Payment_Method[1]
ChosenPayments ==
    IF payment_checked = {} THEN {PaymentOf(i) : i \in 1..Len(df)}
    ELSE payment_checked

\* Positions of the base rows that satisfy the current selection.
Matching ==
    {i \in 1..Len(df) :
        /\ df[i].Vehicle_Type \in ChosenVehicles
        /\ df[i].Booking_Status \in ChosenStatuses
        /\ PaymentOf(i) \in ChosenPayments
        /\ df[i].Timestamp # <<>>
        /\ DateLE(date_range[1], <<df[i].Timestamp[1], df[i].Timestamp[2],
                                   df[i].Timestamp[3]>>)
        /\ DateLE(<<df[i].Timestamp[1], df[i].Timestamp[2],
                    df[i].Timestamp[3]>>, date_range[2])
        /\ hours[1] <= df[i].Timestamp[4]
        /\ df[i].Timestamp[4] <= hours[2]}

\* The record set handed on is the base rows at the positions S, in order.
HandsOn(S) ==
    /\ Len(filtered_df) = Cardinality(S)
    /\ \A k \in 1..Len(filtered_df) :
          /\ filtered_df[k].index \in S
          /\ filtered_df[k] = df[filtered_df[k].index]
          /\ k > 1 => filtered_df[k - 1].index < filtered_df[k].index
    /\ metrics.total_rides = Cardinality(S)
    /\ metrics = calculate_ride_metrics(filtered_df)
    /\ Len(csv) = Cardinality(S) + 1
    /\ csv = to_csv(filtered_df)

-----------------------------------------------------------------------------
\* The columns the contract of add_derived_features names as required:
\* date, time, status, booking value and duration.
RequiredColumns ==
    {"Date", "Time", "Booking Status", "Booking Value", "Avg CTAT"}

\* C12: when a required column is absent from the raw input,
\* add_derived_features fails (the DataError of the contract: the exception
\* it raises at load), which surfaces as a startup failure; no partially
\* augmented table is ever returned, and no failure other than this
\* load-time one ever propagates to the user.
C12_Claimed_OnlyLoadTimeFailure ==
    /\ ~(RequiredColumns \subseteq columns) =>
          /\ ~opened
          /\ loads = 0
          /\ df = <<>>
          /\ filtered_df = <<>>
    /\ error # "" =>
          /\ ~opened
          /\ loads = 0
          /\ ~(columns_read \subseteq columns)

\* The load of a CSV without its Date column has failed: no table, no page.
C12_Witness ==
    /\ "Date" \notin columns
    /\ error = "KeyError"
    /\ ~opened
    /\ loads = 0
    /\ df = <<>>

\* The part of C12 about loading: a CSV that lacks a column
\* add_derived_features reads never yields a table, and the failure shown
\* is the KeyError of the load.
C12_LoadFailureLeavesNoTable ==
    /\ ~(columns_read \subseteq columns) =>
          /\ ~opened
          /\ loads = 0
          /\ df = <<>>
          /\ error \in {"", "KeyError"}
    /\ error = "KeyError" => ~(columns_read \subseteq columns)

-----------------------------------------------------------------------------
\* C13: whenever the base table is non-empty, the record set the script
\* passes to the metrics, volume, per-vehicle-type and export steps is
\* non-empty after every interaction: when the selection matches no row
\* the whole base table is passed in its place, under the warning, and a
\* category with no box ticked counts as all of its values selected (the
\* rows passed are then those matching the other filters).  A run that
\* ends before these steps passes no record set to them.
C13_RecordSetNeverEmpty ==
    (opened /\ error = "" /\ df # <<>>) =>
        /\ filtered_df # <<>>
        /\ {filtered_df[k].index : k \in 1..Len(filtered_df)} =
              (IF Matching = {} THEN 1..Len(df) ELSE Matching)
        /\ warning = (Matching = {})
        /\ metrics.total_rides = Len(filtered_df)
        /\ metrics.total_rides >= 1
        /\ Len(csv) = Len(filtered_df) + 1
        /\ vh_metrics_df # <<>>
        /\ \A i \in 1..Len(vh_metrics_df) :
              /\ vh_metrics_df[i].Total_Bookings >= 1
              /\ vh_metrics_df[i].Total_Bookings =
                    Cardinality({k \in 1..Len(filtered_df) :
                        filtered_df[k].Vehicle_Type =
                            vh_metrics_df[i].Vehicle_Type})
        /\ \A i \in 1..Len(volume.volume_data) :
              /\ volume.volume_data[i].Ride_Volume >= 1
              /\ volume.volume_data[i].Ride_Volume <= Len(filtered_df)

\* No vehicle box is ticked and the hour slider leaves no ride: both rows
\* of the base table are passed on.
C13_Witness ==
    /\ opened
    /\ error = ""
    /\ vehicle_checked = {}
    /\ Matching = {}
    /\ warning
    /\ Len(df) = 2
    /\ Len(filtered_df) = 2
    /\ metrics.total_rides = 2

-----------------------------------------------------------------------------
(* Properties of the library functions (specification SpecFn).             *)

\* Positions of the rows of a table with a given status.
RowsWithStatus(t, statuses) ==
    {i \in 1..Len(t) : t[i].Booking_Status \in statuses}

KnownRates == {"Completed", "Cancelled by Customer", "Cancelled by Driver"}

\* The float q is exactly c / n * 100.
IsPercentOf(q, c, n) == q.den > 0 /\ q.num * n = 100 * c * q.den

\* C1: calculate_ride_metrics on a record set with zero rows returns
\* total_rides = 0 and every rate and mean 0 exactly, none of them NaN.
C1_EmptyMetricsAreZero ==
    (call = "calculate_ride_metrics" /\ Len(filtered_df) = 0) =>
        /\ ret.total_rides = 0
        /\ \A k \in {"success_rate", "customer_cancellation_rate",
                     "driver_cancellation_rate", "avg_revenue",
                     "avg_driver_rating"} :
              ret[k].num = 0 /\ ret[k].den = 1

C1_Witness ==
    /\ call = "calculate_ride_metrics"
    /\ Len(filtered_df) = 0
    /\ Len(df) > 0

\* C2, as claimed: for every row of the augmented table, Revenue equals
\* Booking Value if and only if the status is Completed, and Revenue is 0
\* for every other status.
C2_Claimed_RevenueIffCompleted ==
    call # "" =>
        \A i \in 1..Len(df) :
            /\ (df[i].Revenue = df[i].Booking_Value)
                   <=> (df[i].Booking_Status = "Completed")
            /\ df[i].Booking_Status # "Completed" => df[i].Revenue = <<0>>

\* C2, amended: for every row of the augmented table, Revenue equals
\* Booking Value if the status is Completed and is 0 for every other status,
\* known or not (a row of another status whose Booking Value is 0 has a
\* Revenue equal to its Booking Value too).
C2_RevenueIfCompletedElseZero ==
    call # "" =>
        \A i \in 1..Len(df) :
            /\ df[i].Booking_Status = "Completed"
                   => df[i].Revenue = raw[i].Booking_Value
            /\ df[i].Booking_Status # "Completed" => df[i].Revenue = <<0>>

C2_Witness ==
    /\ call = "add_derived_features"
    /\ \E i \in 1..Len(df) :
          /\ df[i].Booking_Status = "Incomplete"
          /\ df[i].Booking_Value = <<0>>
          /\ df[i].Revenue = <<0>>
    /\ \E i \in 1..Len(df) :
          /\ df[i].Booking_Status = "Completed"
          /\ df[i].Revenue = <<300>>
    /\ \E i \in 1..Len(df) :
          /\ df[i].Booking_Status = "No Driver Found"
          /\ df[i].Booking_Value = <<>>
          /\ df[i].Revenue = <<0>>

\* Hours of the rows of a table that have a timestamp.
HoursPresent(t) ==
    {t[i].Timestamp[4] : i \in {j \in 1..Len(t) : t[j].Timestamp # <<>>}}

\* C5, as claimed: with granularity Hour, prepare_volume_data returns
\* exactly 24 buckets, one for each hour 0..23 in ascending order.
C5_Claimed_TwentyFourBuckets ==
    call = "Hour" =>
        /\ Len(ret.volume_data) = 24
        /\ \A i \in 1..Len(ret.volume_data) : ret.volume_data[i].Hour = i - 1

\* C5, amended: with granularity Hour, prepare_volume_data returns one
\* bucket for each hour that occurs among the rows with a timestamp, and no
\* bucket for an hour without rides: the buckets are in ascending order of
\* hour, within 0..23, at most 24, each counting the rows of its hour; only
\* the tick values x_tickvals list all of 0..23.
C5_BucketsAreHoursPresent ==
    call = "Hour" =>
        LET v == ret.volume_data
        IN  /\ {v[i].Hour : i \in 1..Len(v)} = HoursPresent(filtered_df)
            /\ Len(v) = Cardinality(HoursPresent(filtered_df))
            /\ Len(v) <= 24
            /\ \A i \in 1..Len(v) :
                  /\ v[i].Hour \in 0..23
                  /\ i > 1 => v[i - 1].Hour < v[i].Hour
                  /\ v[i].Ride_Volume > 0
                  /\ v[i].Ride_Volume =
                        Cardinality({j \in 1..Len(filtered_df) :
                            /\ filtered_df[j].Timestamp # <<>>
                            /\ filtered_df[j].Timestamp[4] = v[i].Hour})
            /\ Len(ret.x_tickvals) = 24
            /\ \A h \in 1..24 : ret.x_tickvals[h] = h - 1

C5_Witness ==
    /\ call = "Hour"
    /\ Len(filtered_df) = 3
    /\ ret.volume_data = <<[Hour |-> 8, Ride_Volume |-> 2],
                           [Hour |-> 17, Ride_Volume |-> 1]>>

\* n * q for a float q that is a multiple of 1/n.
Times(q, n) == (q.num * n) \div q.den

\* C7: for every non-empty record set each rate of calculate_ride_metrics
\* lies in [0, 100], and success rate + customer-cancellation rate +
\* driver-cancellation rate + the rate of the rows of any other status
\* is 100.
C7_RatesPartitionHundred ==
    (call = "calculate_ride_metrics" /\ Len(filtered_df) > 0) =>
        LET n     == Len(filtered_df)
            other == Cardinality({i \in 1..n :
                        filtered_df[i].Booking_Status \notin KnownRates})
            rates == <<ret.success_rate, ret.customer_cancellation_rate,
                       ret.driver_cancellation_rate>>
        IN  /\ \A k \in 1..3 :
                  /\ rates[k].den > 0
                  /\ 0 <= rates[k].num
                  /\ rates[k].num <= 100 * rates[k].den
                  /\ (rates[k].num * n) % rates[k].den = 0
            /\ Times(rates[1], n) + Times(rates[2], n) + Times(rates[3], n)
                   + 100 * other = 100 * n

C7_Witness ==
    /\ call = "calculate_ride_metrics"
    /\ Len(filtered_df) = 3
    /\ ret.success_rate = [num |-> 100, den |-> 3]
    /\ ret.customer_cancellation_rate = [num |-> 100, den |-> 3]
    /\ ret.driver_cancellation_rate = [num |-> 0, den |-> 1]
    /\ \E i \in 1..3 : filtered_df[i].Booking_Status = "Incomplete"

\* Sum of the Booking Value of the rows of t at the positions S.
RECURSIVE SumBookingValue(_, _)
SumBookingValue(t, S) ==
    IF S = {} THEN 0
    ELSE LET i == CHOOSE j \in S : TRUE
         IN  t[i].Booking_Value[1] + SumBookingValue(t, S \ {i})

\* The float q shown with two decimals (f"{q:.2f}") reads as h hundredths.
ShowsAs2(q, h) == q.den > 0 /\ 2 * Abs(100 * q.num - h * q.den) <= q.den

\* The record set is the three rows (Completed, 100), (Cancelled by
\* Customer, 50), (Completed, 300).
IsExampleC8(t) ==
    /\ Len(t) = 3
    /\ <<t[1].Booking_Status, t[2].Booking_Status, t[3].Booking_Status>>
           = <<"Completed", "Cancelled by Customer", "Completed">>
    /\ <<t[1].Booking_Value, t[2].Booking_Value, t[3].Booking_Value>>
           = <<(<<100>>), (<<50>>), (<<300>>)>>

\* C8, as claimed: for N > 0 rows, total_rides = N, success_rate =
\* 100 * Completed / N, customer_cancellation_rate = 100 * Cancelled by
\* Customer / N and avg_revenue = (sum of Revenue over all N rows, the
\* others than Completed contributing 0) / N.
C8_Claimed_MeanOverAllRows ==
    (call = "calculate_ride_metrics" /\ Len(filtered_df) > 0) =>
        LET n     == Len(filtered_df)
            done  == RowsWithStatus(filtered_df, {"Completed"})
            paid  == {i \in done : filtered_df[i].Booking_Value # <<>>}
        IN  /\ ret.total_rides = n
            /\ IsPercentOf(ret.success_rate, Cardinality(done), n)
            /\ IsPercentOf(ret.customer_cancellation_rate,
                   Cardinality(RowsWithStatus(filtered_df,
                                              {"Cancelled by Customer"})), n)
            /\ ret.avg_revenue.den > 0
            /\ ret.avg_revenue.num * n
                   = SumBookingValue(filtered_df, paid) * ret.avg_revenue.den

\* C8, amended: for N > 0 rows, total_rides = N, success_rate =
\* 100 * Completed / N, customer_cancellation_rate = 100 * Cancelled by
\* Customer / N, and avg_revenue is the mean of the Revenue cells that are
\* not null: (sum of Booking Value over the Completed rows that have one) /
\* (N - number of Completed rows without a Booking Value), which is the sum
\* over N when every Completed row has a Booking Value, and NaN when every
\* row is a Completed row without one.  The rows (Completed, 100),
\* (Cancelled by Customer, 50), (Completed, 300) give 3, 66.67 %, 33.33 %
\* and 133.33.
C8_MetricsOfNonEmptySet ==
    (call = "calculate_ride_metrics" /\ Len(filtered_df) > 0) =>
        LET n     == Len(filtered_df)
            done  == RowsWithStatus(filtered_df, {"Completed"})
            paid  == {i \in done : filtered_df[i].Booking_Value # <<>>}
            cells == n - Cardinality(done \ paid)
        IN  /\ ret.total_rides = n
            /\ IsPercentOf(ret.success_rate, Cardinality(done), n)
            /\ IsPercentOf(ret.customer_cancellation_rate,
                   Cardinality(RowsWithStatus(filtered_df,
                                              {"Cancelled by Customer"})), n)
            /\ IF cells = 0 THEN ret.avg_revenue.den = 0
               ELSE /\ ret.avg_revenue.den > 0
                    /\ ret.avg_revenue.num * cells
                          = SumBookingValue(filtered_df, paid)
                                * ret.avg_revenue.den
            /\ IsExampleC8(filtered_df) =>
                  /\ ret.total_rides = 3
                  /\ ShowsAs2(ret.success_rate, 6667)
                  /\ ShowsAs2(ret.customer_cancellation_rate, 3333)
                  /\ ShowsAs2(ret.avg_revenue, 13333)

C8_Witness ==
    /\ call = "calculate_ride_metrics"
    /\ IsExampleC8(filtered_df)
    /\ ret.avg_revenue = [num |-> 400, den |-> 3]

\* The float q is c / n * 100 rounded to one decimal.
IsPercentRounded1(q, c, n) ==
    /\ q.den \in {1, 2, 5, 10}
    /\ 2 * Abs(10 * q.num * n - 1000 * c * q.den) <= q.den * n

VehicleTypesIn(t) == {t[i].Vehicle_Type : i \in 1..Len(t)}

\* C9: vehicle_type_metrics_dataframe returns exactly one row per vehicle
\* type present in the input, with Total Bookings the number of rows of the
\* type and Success, Incomplete and Cancellation Rate the percentage
\* (shown to one decimal, as 66.7 and 33.3 for 2 Completed and 1 Cancelled
\* by Driver of 3) of its Completed, its Incomplete and its Cancelled by
\* Customer or Cancelled by Driver rows.
C9_VehicleTypeTable ==
    call = "vehicle_type_metrics_dataframe" =>
        /\ Len(ret) = Cardinality(VehicleTypesIn(filtered_df))
        /\ {ret[k].Vehicle_Type : k \in 1..Len(ret)}
               = VehicleTypesIn(filtered_df)
        /\ \A k \in 1..Len(ret) :
              LET g == {i \in 1..Len(filtered_df) :
                          filtered_df[i].Vehicle_Type = ret[k].Vehicle_Type}
                  Count(statuses) ==
                      Cardinality(g \cap RowsWithStatus(filtered_df, statuses))
                  n == Cardinality(g)
              IN  /\ ret[k].Total_Bookings = n
                  /\ IsPercentRounded1(ret[k].Success_Rate,
                                       Count({"Completed"}), n)
                  /\ IsPercentRounded1(ret[k].Incomplete_Rate,
                                       Count({"Incomplete"}), n)
                  /\ IsPercentRounded1(ret[k].Cancellation_Rate,
                        Count({"Cancelled by Customer",
                               "Cancelled by Driver"}), n)
                  /\ (n = 3 /\ Count({"Completed"}) = 2
                            /\ Count({"Cancelled by Driver"}) = 1) =>
                        /\ ret[k].Success_Rate = [num |-> 667, den |-> 10]
                        /\ ret[k].Cancellation_Rate = [num |-> 333, den |-> 10]

C9_Witness ==
    /\ call = "vehicle_type_metrics_dataframe"
    /\ Len(ret) = 1
    /\ ret[1].Total_Bookings = 3
    /\ ret[1].Success_Rate = [num |-> 667, den |-> 10]
    /\ ret[1].Cancellation_Rate = [num |-> 333, den |-> 10]
    /\ Cardinality(RowsWithStatus(filtered_df, {"Cancelled by Driver"})) = 1

Week == <<"Monday", "Tuesday", "Wednesday", "Thursday", "Friday", "Saturday",
          "Sunday">>

DaysPresent(t) ==
    {Week[Weekday(t[i].Timestamp[1], t[i].Timestamp[2], t[i].Timestamp[3])] :
        i \in {j \in 1..Len(t) : t[j].Timestamp # <<>>}}

\* C10: with granularity Day of Week, prepare_volume_data returns the
\* buckets of the days present in the order Monday, Tuesday, ..., Sunday,
\* whatever order the days first occur in the rows.
C10_DaysInWeekOrder ==
    call = "Day of Week" =>
        LET v == ret.volume_data
            Pos(d) == CHOOSE p \in 1..7 : Week[p] = d
        IN  /\ {v[i].Day_of_Week : i \in 1..Len(v)} = DaysPresent(filtered_df)
            /\ \A i \in 1..Len(v) : v[i].Day_of_Week \in DaysPresent(filtered_df)
            /\ \A i \in 2..Len(v) :
                  Pos(v[i - 1].Day_of_Week) < Pos(v[i].Day_of_Week)

C10_Witness ==
    /\ call = "Day of Week"
    /\ Len(filtered_df) >= 2
    /\ filtered_df[1].Day_of_Week = <<"Friday">>
    /\ filtered_df[2].Day_of_Week = <<"Monday">>
    /\ Len(ret.volume_data) = 2
    /\ ret.volume_data[1].Day_of_Week = "Monday"
    /\ ret.volume_data[2].Day_of_Week = "Friday"


-----------------------------------------------------------------------------
\* The date and time texts of a raw row name a calendar date and a time of
\* day.
Readable(r) ==
    /\ Len(r.Date) = 3
    /\ Len(r.Time) = 3
    /\ r.Date[2] \in 1..12
    /\ r.Date[3] >= 1
    /\ r.Date[3] <= (CASE r.Date[2] \in {4, 6, 9, 11} -> 30
                       [] r.Date[2] = 2 ->
                            (IF r.Date[1] % 4 = 0 /\ (r.Date[1] % 100 # 0
                                                  \/ r.Date[1] % 400 = 0)
                             THEN 29 ELSE 28)
                       [] OTHER -> 31)
    /\ r.Time[1] \in 0..23
    /\ r.Time[2] \in 0..59
    /\ r.Time[3] \in 0..59

RECURSIVE RideVolumeSum(_)
RideVolumeSum(v) ==
    IF v = <<>> THEN 0 ELSE Head(v).Ride_Volume + RideVolumeSum(Tail(v))

\* C11: a row whose date+time text cannot be parsed does not abort
\* loading: add_derived_features returns every input row, the unreadable
\* ones with a null timestamp (and null hour, day and month), and for each
\* granularity the bucket counts of prepare_volume_data sum to the number
\* of rows of its input that have a non-null timestamp.
C11_NullTimestampsKeptAndNotBucketed ==
    /\ call # "" =>
          /\ Len(df) = Len(file)
          /\ \A i \in 1..Len(df) :
                /\ df[i].index = i
                /\ df[i].Date = file[i].Date
                /\ df[i].Time = file[i].Time
                /\ Readable(file[i]) => df[i].Timestamp = file[i].Date \o file[i].Time
                /\ ~Readable(file[i]) =>
                      /\ df[i].Timestamp = NaT
                      /\ df[i].Hour = Null
                      /\ df[i].Day_of_Week = Null
                      /\ df[i].Month = Null
    /\ call \in Granularities =>
          RideVolumeSum(ret.volume_data) =
              Cardinality({j \in 1..Len(filtered_df) :
                              filtered_df[j].Timestamp # NaT})

\* Three rows, the middle one with a date that does not exist, grouped by
\* month: two buckets of one ride each.
C11_Witness ==
    /\ call = "Month"
    /\ Len(filtered_df) = 3
    /\ ~Readable(file[2])
    /\ filtered_df[2].Timestamp = NaT
    /\ Len(ret.volume_data) = 2
    /\ RideVolumeSum(ret.volume_data) = 2

=============================================================================
